---- MODULE Spec2Model ----
(***************************************************************************)
(* Model of the blood-report analyzer server (src/unnamed/part_001, the    *)
(* first server version, lines 1-209): the temporary upload store, the     *)
(* POST /api/analyze handler and safeParseJSON.                            *)
(*                                                                         *)
(* Texts are sequences of one-character strings.  JavaScript values are    *)
(* tagged records [t |-> tag, v |-> payload]:                              *)
(*   undef, null, true, false, num (v a natural), str (v a text),          *)
(*   arr (v a sequence of values), obj (v a function from key texts to     *)
(*   values).                                                              *)
(* The property names abnormal_findings, categorized_analysis and summary  *)
(* are abbreviated to the one-letter keys "a", "c" and "s".                *)
(***************************************************************************)
EXTENDS Integers, Sequences, FiniteSets, TLC

(***************************************************************************)
(* Bounds of the model.                                                    *)
(***************************************************************************)
MaxReqs == 2      \* analyze requests issued in one behaviour
MaxClock == 1     \* Date.now() ranges over 0..MaxClock
MaxProse == 1     \* length of the prose before and after the JSON text
MaxCut == 2       \* characters a model output may be truncated by
MaxEntries == 3   \* entries of categorized_analysis in a rendered report
MaxFindings == 2  \* findings of abnormal_findings in a rendered report

(***************************************************************************)
(* JavaScript values.                                                      *)
(***************************************************************************)
Undefined == [t |-> "undef", v |-> 0]
Null == [t |-> "null", v |-> 0]
JTrue == [t |-> "true", v |-> 0]
JFalse == [t |-> "false", v |-> 0]
Num(n) == [t |-> "num", v |-> n]
Str(s) == [t |-> "str", v |-> s]
Arr(s) == [t |-> "arr", v |-> s]
Obj(f) == [t |-> "obj", v |-> f]
EmptyObj == Obj([k \in {} |-> Undefined])

\* ToBoolean: undefined, null, false, 0 and "" are falsy.
Truthy(x) ==
  CASE x.t \in {"undef", "null", "false"} -> FALSE
    [] x.t = "num" -> x.v # 0
    [] x.t = "str" -> x.v # <<>>
    [] OTHER -> TRUE

\* typeof x === "object" (null is an object too, but is falsy).
IsObjectType(x) == x.t \in {"obj", "arr", "null"}

IsArray(x) == x.t = "arr"

\* x[key] for a named (non-index) property of a truthy value.
GetProp(x, key) ==
  IF x.t = "obj" /\ key \in DOMAIN x.v THEN x.v[key] ELSE Undefined

(***************************************************************************)
(* JSON.parse on texts over the alphabet                                   *)
(*   { } [ ] , : " ' space newline 0 1 and letters.                        *)
(***************************************************************************)
IsWs(c) == c \in {" ", "\n"}
IsDigit(c) == c \in {"0", "1"}
DigitVal(c) == IF c = "1" THEN 1 ELSE 0

RECURSIVE SkipWs(_, _)
SkipWs(s, i) ==
  IF i <= Len(s) /\ IsWs(s[i]) THEN SkipWs(s, i + 1) ELSE i

ParseFail == [ok |-> FALSE, val |-> Undefined, pos |-> 0]
ParseOk(v, p) == [ok |-> TRUE, val |-> v, pos |-> p]

\* The word w at position i of s.
HasWord(s, i, w) ==
  /\ i + Len(w) - 1 <= Len(s)
  /\ SubSeq(s, i, i + Len(w) - 1) = w

\* A string literal starting at the double quote s[i]: it ends at the next
\* double quote and may hold no control character (line break).
ParseString(s, i) ==
  LET closes == {j \in (i + 1)..Len(s) : s[j] = "\""}
  IN IF closes = {} THEN ParseFail
     ELSE LET j == CHOOSE k \in closes : \A m \in closes : k <= m
              body == SubSeq(s, i + 1, j - 1)
          IN IF \E m \in 1..Len(body) : body[m] = "\n"
             THEN ParseFail
             ELSE ParseOk(Str(body), j + 1)

\* A number starting at the digit s[i]: "0", or "1" followed by digits.
RECURSIVE ParseDigits(_, _, _)
ParseDigits(s, i, acc) ==
  IF i <= Len(s) /\ IsDigit(s[i])
  THEN ParseDigits(s, i + 1, 10 * acc + DigitVal(s[i]))
  ELSE ParseOk(Num(acc), i)

ParseNumber(s, i) ==
  IF s[i] = "0" THEN ParseOk(Num(0), i + 1) ELSE ParseDigits(s, i, 0)

RECURSIVE ParseValue(_, _), ParseElements(_, _, _), ParseMembers(_, _, _)

\* After an element of an array, at the next token s[k]: "," and more
\* elements, or the closing "]".
AfterElement(s, acc, k) ==
  IF k > Len(s) THEN ParseFail
  ELSE IF s[k] = "," THEN ParseElements(s, k + 1, acc)
  ELSE IF s[k] = "]" THEN ParseOk(Arr(acc), k + 1)
  ELSE ParseFail

ElementParsed(s, acc, e) ==
  IF ~e.ok THEN ParseFail
  ELSE AfterElement(s, Append(acc, e.val), SkipWs(s, e.pos))

\* The elements of an array after "[" or ",", up to the closing "]".
ParseElements(s, i, acc) == ElementParsed(s, acc, ParseValue(s, i))

\* The object f with the member name: val; a repeated key keeps its last
\* value.
WithMember(f, name, val) ==
  [x \in DOMAIN f \cup {name} |-> IF x = name THEN val ELSE f[x]]

\* After a member of an object, at the next token s[n]: "," and more
\* members, or the closing "}".
AfterMember(s, f, n) ==
  IF n > Len(s) THEN ParseFail
  ELSE IF s[n] = "," THEN ParseMembers(s, n + 1, f)
  ELSE IF s[n] = "}" THEN ParseOk(Obj(f), n + 1)
  ELSE ParseFail

MemberValue(s, acc, name, e) ==
  IF ~e.ok THEN ParseFail
  ELSE AfterMember(s, WithMember(acc, name, e.val), SkipWs(s, e.pos))

MemberColon(s, acc, name, c) ==
  IF c > Len(s) \/ s[c] # ":" THEN ParseFail
  ELSE MemberValue(s, acc, name, ParseValue(s, c + 1))

MemberKey(s, acc, key) ==
  IF ~key.ok THEN ParseFail
  ELSE MemberColon(s, acc, key.val.v, SkipWs(s, key.pos))

MemberAt(s, acc, k) ==
  IF k > Len(s) \/ s[k] # "\"" THEN ParseFail
  ELSE MemberKey(s, acc, ParseString(s, k))

\* The members of an object after "{" or ",", up to the closing "}".
ParseMembers(s, i, acc) == MemberAt(s, acc, SkipWs(s, i))

\* An object whose "{" is s[k] and whose next token is s[m].
ObjectAt(s, k, m) ==
  IF m <= Len(s) /\ s[m] = "}"
  THEN ParseOk(EmptyObj, m + 1)
  ELSE ParseMembers(s, k + 1, EmptyObj.v)

\* An array whose "[" is s[k] and whose next token is s[m].
ArrayAt(s, k, m) ==
  IF m <= Len(s) /\ s[m] = "]"
  THEN ParseOk(Arr(<<>>), m + 1)
  ELSE ParseElements(s, k + 1, <<>>)

\* The value whose first character is s[k].
ValueAt(s, k) ==
  IF k > Len(s) THEN ParseFail
  ELSE CASE s[k] = "{" -> ObjectAt(s, k, SkipWs(s, k + 1))
         [] s[k] = "[" -> ArrayAt(s, k, SkipWs(s, k + 1))
         [] s[k] = "\"" -> ParseString(s, k)
         [] IsDigit(s[k]) -> ParseNumber(s, k)
         [] HasWord(s, k, <<"t", "r", "u", "e">>) -> ParseOk(JTrue, k + 4)
         [] HasWord(s, k, <<"f", "a", "l", "s", "e">>) -> ParseOk(JFalse, k + 5)
         [] HasWord(s, k, <<"n", "u", "l", "l">>) -> ParseOk(Null, k + 4)
         [] OTHER -> ParseFail

ParseValue(s, i) == ValueAt(s, SkipWs(s, i))

\* The outcome of JSON.parse for the value r parsed from the start of s:
\* only white space may follow it.
WholeText(s, r) ==
  IF r.ok /\ SkipWs(s, r.pos) > Len(s)
  THEN [threw |-> FALSE, val |-> r.val]
  ELSE [threw |-> TRUE, val |-> Undefined]

\* JSON.parse(text): the value, or a thrown SyntaxError.
JSONparse(s) == WholeText(s, ParseValue(s, 1))

(***************************************************************************)
(* safeParseJSON (part_001 lines 78-101).                                  *)
(***************************************************************************)
Positions(s, c) == {i \in 1..Len(s) : s[i] = c}
MinOf(S) == CHOOSE k \in S : \A m \in S : k <= m
MaxOf(S) == CHOOSE k \in S : \A m \in S : k >= m

\* A bug this code does not have: a lazy match, up to the first "}".
BraceMatchLazy(s) ==
  LET opens == Positions(s, "{")
      closes == {j \in Positions(s, "}") : opens # {} /\ j > MinOf(opens)}
  IN IF closes # {}
     THEN [found |-> TRUE, span |-> SubSeq(s, MinOf(opens), MinOf(closes))]
     ELSE [found |-> FALSE, span |-> <<>>]

\* text.match(/\{[\s\S]*\}/): the span from the first "{" to the last "}",
\* or no match.
BraceMatch(s) ==
  LET opens == Positions(s, "{")
      closes == Positions(s, "}")
  IN IF opens # {} /\ closes # {} /\ MinOf(opens) < MaxOf(closes)
     THEN [found |-> TRUE, span |-> SubSeq(s, MinOf(opens), MaxOf(closes))]
     ELSE [found |-> FALSE, span |-> <<>>]

\* .replace(/(\r\n|\n|\r)/gm, " ")
ReplaceNewlines(s) == [i \in 1..Len(s) |-> IF s[i] = "\n" THEN " " ELSE s[i]]

\* .replace(/'/g, '"')
ReplaceSingleQuotes(s) == [i \in 1..Len(s) |-> IF s[i] = "'" THEN "\"" ELSE s[i]]

\* .replace(/,\s*X/g, "X") for X the closing character close: scanning from
\* the left, a comma followed by white space and close is replaced by close.
RECURSIVE ReplaceCommaFrom(_, _, _, _)
ReplaceCommaFrom(s, close, i, acc) ==
  IF i > Len(s) THEN acc
  ELSE LET k == SkipWs(s, i + 1)
       IN IF s[i] = "," /\ k <= Len(s) /\ s[k] = close
          THEN ReplaceCommaFrom(s, close, k + 1, Append(acc, close))
          ELSE ReplaceCommaFrom(s, close, i + 1, Append(acc, s[i]))

\* A bug this code does not have: /,X/g, without the white space.
ReplaceCommaAdjacent(s, close) ==
  [i \in 1..(Len(s) - Cardinality({k \in 1..(Len(s) - 1) : s[k] = "," /\ s[k + 1] = close})) |->
     s[CHOOSE k \in 1..Len(s) :
         /\ ~(s[k] = "," /\ k < Len(s) /\ s[k + 1] = close)
         /\ Cardinality({m \in 1..k : ~(s[m] = "," /\ m < Len(s) /\ s[m + 1] = close)}) = i]]

ReplaceCommaBefore(s, close) == ReplaceCommaFrom(s, close, 1, <<>>)

\* A bug this code does not have: no removal of a comma before "]".
CleanedBraceOnly(span) ==
  ReplaceCommaBefore(ReplaceSingleQuotes(ReplaceNewlines(span)), "}")

\* The repair chain of lines 88-92, in the order of the code.
Cleaned(span) ==
  ReplaceCommaBefore(
    ReplaceCommaBefore(ReplaceSingleQuotes(ReplaceNewlines(span)), "}"), "]")

\* The result of safeParseJSON(text): the returned value, whether the call
\* threw, and the step that produced the value ("falsy": the !text return,
\* "object": the typeof return, "direct": the first JSON.parse, "repair":
\* the JSON.parse of the cleaned span, "fail": the final return null).
Returned(v, step) == [threw |-> FALSE, val |-> v, step |-> step]

\* Lines 94-100: the parse of the cleaned span, its SyntaxError caught.
AfterRepair(repaired) ==
  IF ~repaired.threw THEN Returned(repaired.val, "repair") ELSE Returned(Null, "fail")

\* Lines 86-100, for the match m.
Repair(m) ==
  IF m.found THEN AfterRepair(JSONparse(Cleaned(m.span))) ELSE Returned(Null, "fail")

\* Lines 82-100, for the outcome direct of the first JSON.parse.
FirstSuccess(s, direct) ==
  IF ~direct.threw THEN Returned(direct.val, "direct") ELSE Repair(BraceMatch(s))

\* A bug this code does not have: the repaired parse outside a try block.
RepairNoCatch(m, repaired) ==
  IF m.found
  THEN [threw |-> repaired.threw, val |-> repaired.val, step |-> "repair"]
  ELSE Returned(Null, "fail")

FirstSuccessNoCatch(s, direct, m) ==
  IF ~direct.threw THEN Returned(direct.val, "direct")
  ELSE RepairNoCatch(m, JSONparse(Cleaned(m.span)))

SafeParseJSONNoCatch(text) ==
  IF ~Truthy(text) THEN Returned(Null, "falsy")
  ELSE IF IsObjectType(text) THEN Returned(text, "object")
  ELSE FirstSuccessNoCatch(text.v, JSONparse(text.v), BraceMatch(text.v))

\* A bug this code does not have: extraction and repair before the direct
\* parse.
RepairFirst(s, m, repaired) ==
  IF m.found /\ ~repaired.threw
  THEN Returned(repaired.val, "repair")
  ELSE FirstSuccess(s, JSONparse(s))

SafeParseJSONRepairFirst(text) ==
  IF ~Truthy(text) THEN Returned(Null, "falsy")
  ELSE IF IsObjectType(text) THEN Returned(text, "object")
  ELSE RepairFirst(text.v, BraceMatch(text.v), JSONparse(Cleaned(BraceMatch(text.v).span)))

\* text is undefined, a string, or (lines 79-80) an object.
SafeParseJSON(text) ==
  IF ~Truthy(text) THEN Returned(Null, "falsy")
  ELSE IF IsObjectType(text) THEN Returned(text, "object")
  ELSE FirstSuccess(text.v, JSONparse(text.v))

(***************************************************************************)
(* POST /api/analyze, lines 186-204: the handler from the model's response *)
(* to the HTTP response.  A response is [status, body]; a body is the      *)
(* record [report |-> value] or [error |-> message].                       *)
(***************************************************************************)
AbnormalFindings == <<"a">>
CategorizedAnalysis == <<"c">>
Summary == <<"s">>

NoFileMessage == "No file uploaded"
InvalidJSONMessage == "AI returned invalid JSON"
TypeErrorMessage == "Cannot create property on primitive"

\* x[key] = val in strict mode (the file is an ES module): a property of an
\* object is set; an array takes the property, which JSON serialization of
\* the response then omits; a primitive throws a TypeError.
SetProp(x, key, val) ==
  CASE x.t = "obj" ->
         [threw |-> FALSE,
          val |-> Obj([k \in DOMAIN x.v \cup {key} |-> IF k = key THEN val ELSE x.v[k]])]
    [] x.t = "arr" -> [threw |-> FALSE, val |-> x]
    [] OTHER -> [threw |-> TRUE, val |-> x]

\* if (!Array.isArray(parsed[key])) parsed[key] = [];
CoerceArray(x, key) ==
  IF IsArray(GetProp(x, key))
  THEN [threw |-> FALSE, val |-> x]
  ELSE SetProp(x, key, Arr(<<>>))

\* Lines 193-195, after lines 190-192 gave first.
CoerceSecond(first) ==
  IF first.threw THEN first ELSE CoerceArray(first.val, CategorizedAnalysis)

\* Lines 190-195.
CoerceArrays(parsed) == CoerceSecond(CoerceArray(parsed, AbnormalFindings))

\* A bug this code does not have: the structured output is not looked at.
ParsedOfTextOnly(response) == SafeParseJSON(response.output_text)

\* response.output_parsed || safeParseJSON(response.output_text)
ParsedOf(response) ==
  IF Truthy(response.output_parsed)
  THEN Returned(response.output_parsed, "structured")
  ELSE SafeParseJSON(response.output_text)

Reply(status, body, caught) == [status |-> status, body |-> body, caught |-> caught]

\* res.status(500).json({ error: message })
ServerError(message) == [status |-> 500, body |-> [error |-> message]]

\* Line 196, or the catch block when the coercion threw.
ReportReply(coerced) ==
  IF coerced.threw
  THEN Reply(500, [error |-> TypeErrorMessage], TRUE)
  ELSE Reply(200, [report |-> coerced.val], FALSE)

\* Lines 189-204 for the outcome parsed of line 186.
ReplyFor(parsed) ==
  IF parsed.threw THEN Reply(500, [error |-> "SyntaxError"], TRUE)
  ELSE IF Truthy(parsed.val) THEN ReportReply(CoerceArrays(parsed.val))
  ELSE Reply(500, [error |-> InvalidJSONMessage], FALSE)

\* Lines 186-204 for a response of the external client: the HTTP reply, and
\* whether an exception reached the catch block on the way.
AnalyzeTail(response) == ReplyFor(ParsedOf(response))

(***************************************************************************)
(* The outputs of the external model that the checks draw from: JSON       *)
(* values written out as text, with double or single quotes as string      *)
(* delimiters, with or without a trailing comma before every closing brace *)
(* and bracket, cut short by some characters, between two pieces of prose. *)
(***************************************************************************)
\* The property names report and error of the endpoint's bodies.
ReportKey == <<"R">>
ErrorKey == <<"E">>

KeyOrder == <<AbnormalFindings, CategorizedAnalysis, Summary, ReportKey, ErrorKey>>

NumText(n) == IF n = 0 THEN <<"0">> ELSE IF n = 1 THEN <<"1">> ELSE <<"1", "0">>

RECURSIVE Ser(_, _, _), SerElems(_, _, _, _), SerMembers(_, _, _, _, _)

\* The elements s[i..] of an array, separated by commas.
SerElems(s, i, q, tc) ==
  IF i > Len(s) THEN <<>>
  ELSE Ser(s[i], q, tc) \o (IF i < Len(s) THEN <<",">> ELSE <<>>) \o SerElems(s, i + 1, q, tc)

\* The members of the object f with the keys KeyOrder[i..], in that order.
SerMembers(f, i, q, tc, first) ==
  IF i > Len(KeyOrder) THEN <<>>
  ELSE IF KeyOrder[i] \in DOMAIN f
       THEN (IF first THEN <<>> ELSE <<",">>) \o <<q>> \o KeyOrder[i] \o <<q, ":">>
            \o Ser(f[KeyOrder[i]], q, tc) \o SerMembers(f, i + 1, q, tc, FALSE)
       ELSE SerMembers(f, i + 1, q, tc, first)

\* The text of the value x with string delimiter q, and with a trailing
\* comma in every non-empty object and array when tc.
Ser(x, q, tc) ==
  CASE x.t = "null" -> <<"n", "u", "l", "l">>
    [] x.t = "true" -> <<"t", "r", "u", "e">>
    [] x.t = "false" -> <<"f", "a", "l", "s", "e">>
    [] x.t = "num" -> NumText(x.v)
    [] x.t = "str" -> <<q>> \o x.v \o <<q>>
    [] x.t = "arr" ->
         <<"[">> \o SerElems(x.v, 1, q, tc)
         \o (IF tc /\ x.v # <<>> THEN <<",">> ELSE <<>>) \o <<"]">>
    [] x.t = "obj" ->
         <<"{">> \o SerMembers(x.v, 1, q, tc, TRUE)
         \o (IF tc /\ DOMAIN x.v # {} THEN <<",">> ELSE <<>>) \o <<"}">>

\* String contents: empty, a word, an apostrophe, a comma before a closing
\* brace, a comma and a space before a closing bracket.
StrContents == {<<>>, <<"x">>, <<"'">>, <<",", "}">>, <<",", " ", "]">>}

Leaves == {Null, Num(1)} \cup {Str(c) : c \in StrContents \ {<<>>}}

Absent == {Undefined}

\* The values of abnormal_findings, categorized_analysis and summary in the
\* sample objects; Undefined stands for a key the object does not have.
FindingsValues == Absent \cup {Arr(<<Str(<<"x">>), JTrue>>), Str(<<>>)}
AnalysisValues == Absent \cup {Arr(<<>>)}
SummaryValues ==
  Absent \cup Leaves \cup {Arr(<<Str(<<"'">>)>>), Obj([k \in {Summary} |-> Str(<<"x">>)])}

ObjectOf(a, c, s) ==
  LET given == [k \in {AbnormalFindings, CategorizedAnalysis, Summary} |->
                  IF k = AbnormalFindings THEN a
                  ELSE IF k = CategorizedAnalysis THEN c ELSE s]
  IN Obj([k \in {x \in DOMAIN given : given[x] # Undefined} |-> given[k]])

SampleObjects ==
  {ObjectOf(a, c, s) : a \in FindingsValues, c \in AnalysisValues, s \in SummaryValues}

\* Prose is made of words and line breaks.
ProseChars == {"x", "\n"}
Prose == UNION {[1..n -> ProseChars] : n \in 0..MaxProse}

\* s without its last cut characters.
Truncate(s, cut) == SubSeq(s, 1, IF cut >= Len(s) THEN 0 ELSE Len(s) - cut)

\* An input [structured, obj, quote, comma, cut, pre, post]: the text of
\* obj as written by the model, and obj itself as response.output_parsed
\* when structured.
Original(in) == Ser(in.obj, "\"", FALSE)
Written(in) == Ser(in.obj, in.quote, in.comma)
TextOf(in) == in.pre \o Truncate(Written(in), in.cut) \o in.post

\* JSON values that are no objects: the falsy ones and some truthy ones.
PrimitiveValues == {Null, JFalse, Num(0), Str(<<>>), Num(1), JTrue, Str(<<"x">>)}

\* The texts of the sample objects as the model may write them, the sample
\* objects as structured output, and the plain texts of the primitives.
Inputs ==
  [structured : {FALSE}, obj : SampleObjects, quote : {"\"", "'"}, comma : BOOLEAN,
   cut : 0..MaxCut, pre : Prose, post : Prose]
  \cup
  [structured : {TRUE}, obj : SampleObjects, quote : {"\""}, comma : {FALSE},
   cut : 0..MaxCut, pre : {<<>>}, post : {<<>>}]
  \cup
  [structured : {FALSE}, obj : PrimitiveValues, quote : {"\""}, comma : {FALSE},
   cut : {0}, pre : {<<>>}, post : {<<>>}]

\* The response of the external client for an input.
ResponseOf(in) ==
  [output_parsed |-> IF in.structured THEN in.obj ELSE Undefined,
   output_text |-> Str(TextOf(in))]

(***************************************************************************)
(* The server: the uploads directory, the clock and the analyze requests.  *)
(***************************************************************************)
VARIABLES
  now,     \* Date.now()
  store,   \* uploads/: for each path, the request whose file is there, or 0
  reqs,    \* the analyze requests
  nin,     \* the model output under normalization
  nout,    \* the outcome of normalizing nin, or <<>>
  page,    \* the report given to ReportPreview, and what it renders
  ui       \* the Uploader component and its requests

vars == <<now, store, reqs, nin, nout, page, ui>>

Reqs == 1..MaxReqs
NoFile == "none"
OriginalNames == {"r", "r.png"}

\* path.extname(file.originalname)
Extname(name) == IF name = "r.png" THEN ".png" ELSE ""

\* Lines 15-18: Date.now() + ext, in uploads/.
FileName(t, name) == <<t, IF Extname(name) = "" THEN ".pdf" ELSE Extname(name)>>

Paths == (0..MaxClock) \X {".pdf", ".png"}
NoPath == <<0, "">>

UpstreamMessage == "Connection error."
NoSuchFileMessage == "ENOENT: no such file or directory"

FullReport ==
  Obj([k \in {AbnormalFindings, CategorizedAnalysis, Summary} |->
         IF k = Summary THEN Str(<<"x">>) ELSE Arr(<<Str(<<"x">>)>>)])

\* The responses of openai.responses.create that the server checks draw
\* from: a structured object with every field, and the texts of an object
\* without the arrays, of a number, and of an object cut short.
ModelResponses ==
  {[output_parsed |-> FullReport, output_text |-> Str(Ser(FullReport, "\"", FALSE))],
   [output_parsed |-> Undefined,
    output_text |-> Str(<<"{", "\"", "s", "\"", ":", "\"", "x", "\"", "}">>)],
   [output_parsed |-> Undefined, output_text |-> Str(<<"1">>)],
   [output_parsed |-> Undefined, output_text |-> Str(<<"{", "\"", "s", "\"", ":">>)]}

\* The values of the variables a specification does not use.
NoInput ==
  [structured |-> FALSE, obj |-> EmptyObj, quote |-> "\"", comma |-> FALSE, cut |-> 0,
   pre |-> <<>>, post |-> <<>>]
NoPage == <<>>
NoUploader == <<>>

NewRequest ==
  [pc |-> "new", file |-> NoFile, path |-> NoPath, read |-> 0, calls |-> 0,
   generated |-> 0, thrown |-> <<>>, unlinks |-> 0, pending |-> 0, failed |-> 0,
   sent |-> <<>>,
   response |-> <<>>]

Init ==
  /\ now = 0
  /\ store = [p \in Paths |-> 0]
  /\ reqs = [r \in Reqs |-> NewRequest]
  /\ nin = NoInput
  /\ nout = <<>>
  /\ page = NoPage
  /\ ui = NoUploader

\* The clock advances.
Tick ==
  /\ now < MaxClock
  /\ now' = now + 1
  /\ UNCHANGED <<store, reqs, nin, nout, page, ui>>

\* res.status(status).json(body)
Send(rec, status, body) ==
  [rec EXCEPT !.pc = "done", !.sent = Append(@, [status |-> status, body |-> body])]

\* fs.unlink(filePath, () => {}): the deletion is requested.
Unlink(rec) == [rec EXCEPT !.unlinks = @ + 1, !.pending = @ + 1]

\* A bug this code does not have: a catch block that deletes nothing.
CaughtNoUnlink(rec, message) == Send(rec, 500, [error |-> message])

\* A bug this code does not have: a catch block that hides err.message.
CaughtGeneric(rec, message) == Send(Unlink(rec), 500, [error |-> "Internal Server Error"])

\* The catch block, lines 200-204.
Caught(rec, message) == Send(Unlink(rec), 500, [error |-> message])

\* An awaited call of the external client rejects with an error that has
\* this message, and control passes to the catch block.
Rejected(rec, message) == Caught([rec EXCEPT !.thrown = <<message>>], message)

\* A bug this code does not have: no check for a missing file.
StartedNoCheck(rec) == [rec EXCEPT !.pc = "filesCreate", !.calls = @ + 1]

\* Lines 105-113: the handler up to its first await.
Started(rec) ==
  IF rec.file = NoFile
  THEN Send(rec, 400, [error |-> NoFileMessage])
  ELSE [rec EXCEPT !.pc = "filesCreate", !.calls = @ + 1]

\* A request arrives.  Without a file the handler runs at once; with a file
\* multer names it first (lines 13-20).  Requests arrive in the order of
\* their numbers.
Receive(r) ==
  /\ reqs[r].pc = "new"
  /\ \A q \in 1..(r - 1) : reqs[q].pc # "new"
  /\ \E name \in OriginalNames \cup {NoFile} :
       reqs' = [reqs EXCEPT ![r] =
                  IF name = NoFile
                  THEN Started(@)
                  ELSE [@ EXCEPT !.pc = "upload", !.file = name,
                                 !.path = FileName(now, name)]]
  /\ UNCHANGED <<now, store, nin, nout, page, ui>>

\* multer has written the uploaded file to its path, and the handler runs.
StoreFile(r) ==
  /\ reqs[r].pc = "upload"
  /\ store' = [store EXCEPT ![reqs[r].path] = r]
  /\ reqs' = [reqs EXCEPT ![r] = Started(@)]
  /\ UNCHANGED <<now, nin, nout, page, ui>>

\* openai.files.create settles (lines 110-113): the read stream fails when
\* no file is at filePath, the upload fails, or the file there is uploaded
\* and openai.responses.create is called.
FilesCreateDone(r) ==
  /\ reqs[r].pc = "filesCreate"
  /\ \/ /\ store[reqs[r].path] = 0
        /\ reqs' = [reqs EXCEPT ![r] = Rejected(@, NoSuchFileMessage)]
     \/ /\ store[reqs[r].path] # 0
        /\ reqs' = [reqs EXCEPT ![r] = Rejected(@, UpstreamMessage)]
     \/ /\ store[reqs[r].path] # 0
        /\ reqs' = [reqs EXCEPT ![r] =
                      [@ EXCEPT !.pc = "responsesCreate", !.calls = @ + 1,
                                !.generated = @ + 1,
                                !.read = store[reqs[r].path]]]
  /\ UNCHANGED <<now, store, nin, nout, page, ui>>

\* A bug this code does not have: line 196 without its return, so that the
\* handler goes on to line 198 after the report is sent.
RepliedNoReturn(rec, tail) ==
  Send(Send(IF tail.caught THEN Unlink(rec) ELSE rec, tail.status, tail.body),
       500, [error |-> InvalidJSONMessage])

\* The reply tail is sent; when an exception reached the catch block the
\* deletion is requested again (line 201).
Replied(rec, tail) ==
  Send(IF tail.caught THEN Unlink(rec) ELSE rec, tail.status, tail.body)

\* Lines 183-199 and, when they throw, 200-204.
Answered(rec, response) ==
  Replied([Unlink(rec) EXCEPT !.response = <<response>>], AnalyzeTail(response))

\* openai.responses.create settles (lines 117-181): it fails, or returns a
\* response.
ResponsesCreateDone(r) ==
  /\ reqs[r].pc = "responsesCreate"
  /\ \/ reqs' = [reqs EXCEPT ![r] = Rejected(@, UpstreamMessage)]
     \/ \E response \in ModelResponses :
          reqs' = [reqs EXCEPT ![r] = Answered(@, response)]
  /\ UNCHANGED <<now, store, nin, nout, page, ui>>

\* A bug this code does not have: a callback that reports the failure of
\* the deletion to the caller.
UnlinkCallbackReports(rec, err) ==
  IF err
  THEN Send([rec EXCEPT !.pending = @ - 1], 500, [error |-> NoSuchFileMessage])
  ELSE [rec EXCEPT !.pending = @ - 1]

\* The callback of fs.unlink, () => {}, is called with the outcome err of
\* the deletion and ignores it.
UnlinkCallback(rec, err) == [rec EXCEPT !.pending = @ - 1]

\* A deletion requested by fs.unlink is carried out; when no file is at the
\* path it fails, and the callback () => {} ignores the error.
UnlinkDone(r) ==
  /\ reqs[r].pending > 0
  /\ store' = [store EXCEPT ![reqs[r].path] = 0]
  /\ reqs' = [reqs EXCEPT ![r] = UnlinkCallback(@, store[reqs[r].path] = 0)]
  /\ UNCHANGED <<now, nin, nout, page, ui>>

Next ==
  \/ Tick
  \/ \E r \in Reqs :
       \/ Receive(r)
       \/ StoreFile(r)
       \/ FilesCreateDone(r)
       \/ ResponsesCreateDone(r)
       \/ UnlinkDone(r)

Spec == Init /\ [][Next]_vars

(***************************************************************************)
(* The server with the outcome of every deletion kept on record, for       *)
(* requests that arrive within one millisecond: files of the same          *)
(* extension then share a path, and a deletion can find its file gone.     *)
(***************************************************************************)
\* The deletion of UnlinkDone(r), with a failure counted for the request.
UnlinkObserved(r) ==
  /\ reqs[r].pending > 0
  /\ store' = [store EXCEPT ![reqs[r].path] = 0]
  /\ reqs' = [reqs EXCEPT ![r] =
                [UnlinkCallback(@, store[reqs[r].path] = 0) EXCEPT
                   !.failed = @ + (IF store[reqs[r].path] = 0 THEN 1 ELSE 0)]]
  /\ UNCHANGED <<now, nin, nout, page, ui>>

NextUnlink ==
  \E r \in Reqs :
    \/ Receive(r)
    \/ StoreFile(r)
    \/ FilesCreateDone(r)
    \/ ResponsesCreateDone(r)
    \/ UnlinkObserved(r)

SpecUnlink == Init /\ [][NextUnlink]_vars

(***************************************************************************)
(* The server version with the schema fallback (src/unnamed/part_002,      *)
(* lines 148-368).  Its storage, its missing-file check, its upload to the *)
(* external client and its catch block (lines 159-165, 248-262 and         *)
(* 359-363) are those of part_001; it differs in lines 235-245 and         *)
(* 264-358: extractJSON, the second openai.responses.create, and the       *)
(* coercion of abnormal_findings alone.                                    *)
(***************************************************************************)
InvalidJSONMessageDot == "AI returned invalid JSON."
UnknownParameterMessage == "400 Unknown parameter: 'text.json_schema'."

\* The messages of the errors openai.responses.create rejects with.
CreateMessages == {UpstreamMessage, UnknownParameterMessage}

\* err.message.includes("Unknown parameter")
IncludesUnknownParameter(message) == message = UnknownParameterMessage

\* Lines 238-242: the parse of the matched span, its SyntaxError caught.
AfterExtract(parsed) ==
  IF ~parsed.threw THEN Returned(parsed.val, "extract") ELSE Returned(Null, "fail")

\* Lines 237-244, for the match m.
ExtractMatched(m) ==
  IF m.found THEN AfterExtract(JSONparse(m.span)) ELSE Returned(Null, "fail")

\* extractJSON(text), lines 235-245.
ExtractJSON(s) == ExtractMatched(BraceMatch(s))

\* Lines 339-347; the responses have no choices.
FallbackParsedOf(response) ==
  IF Truthy(response.output_parsed)
  THEN Returned(response.output_parsed, "structured")
  ELSE ExtractJSON(IF Truthy(response.output_text) THEN response.output_text.v ELSE <<>>)

\* Lines 349-363 for the outcome parsed of lines 339-347.
FallbackReplyFor(parsed) ==
  IF Truthy(parsed.val)
  THEN ReportReply(CoerceArray(parsed.val, AbnormalFindings))
  ELSE Reply(500, [error |-> InvalidJSONMessageDot], FALSE)

FallbackTail(response) == FallbackReplyFor(FallbackParsedOf(response))

\* Lines 337-363.
FallbackAnswered(rec, response) ==
  Replied([Unlink(rec) EXCEPT !.response = <<response>>], FallbackTail(response))

\* Lines 312-334: the inner catch block calls openai.responses.create again,
\* without the schema, when the message includes "Unknown parameter", and
\* throws the error on otherwise.
SchemaRejected(rec, message) ==
  IF IncludesUnknownParameter(message)
  THEN [rec EXCEPT !.pc = "plainCreate", !.calls = @ + 1, !.generated = @ + 1]
  ELSE Rejected(rec, message)

\* The openai.responses.create of lines 263-311 (with the schema) settles.
SchemaCreateDone(r) ==
  /\ reqs[r].pc = "responsesCreate"
  /\ \/ \E message \in CreateMessages :
          reqs' = [reqs EXCEPT ![r] = SchemaRejected(@, message)]
     \/ \E response \in ModelResponses :
          reqs' = [reqs EXCEPT ![r] = FallbackAnswered(@, response)]
  /\ UNCHANGED <<now, store, nin, nout, page, ui>>

\* The openai.responses.create of lines 318-331 (plain text) settles.
PlainCreateDone(r) ==
  /\ reqs[r].pc = "plainCreate"
  /\ \/ \E message \in CreateMessages :
          reqs' = [reqs EXCEPT ![r] = Rejected(@, message)]
     \/ \E response \in ModelResponses :
          reqs' = [reqs EXCEPT ![r] = FallbackAnswered(@, response)]
  /\ UNCHANGED <<now, store, nin, nout, page, ui>>

NextFallback ==
  \/ Tick
  \/ \E r \in Reqs :
       \/ Receive(r)
       \/ StoreFile(r)
       \/ FilesCreateDone(r)
       \/ SchemaCreateDone(r)
       \/ PlainCreateDone(r)
       \/ UnlinkDone(r)

SpecFallback == Init /\ [][NextFallback]_vars

(***************************************************************************)
(* Normalization alone: one model output text, taken through lines 186-199.*)
(***************************************************************************)
InitNorm ==
  /\ now = 0
  /\ store = [p \in Paths |-> 0]
  /\ reqs = [r \in Reqs |-> NewRequest]
  /\ nin \in Inputs
  /\ nout = <<>>
  /\ page = NoPage
  /\ ui = NoUploader

\* The external client's response goes through lines 186-199.
Normalize ==
  /\ nout = <<>>
  /\ nout' = <<[parsed |-> ParsedOf(ResponseOf(nin)), reply |-> AnalyzeTail(ResponseOf(nin))]>>
  /\ UNCHANGED <<now, store, reqs, nin, page, ui>>

NextNorm == Normalize

SpecNorm == InitNorm /\ [][NextNorm]_vars

(***************************************************************************)
(* ReportPreview (src/client/src/components/ReportPreview.jsx).  The       *)
(* property names are abbreviated to one-letter keys.  What is rendered is *)
(* a record of the texts React puts on the page.                           *)
(***************************************************************************)
Patient == <<"p">>
Name == <<"n">>
Age == <<"g">>
Sex == <<"x">>
Date == <<"d">>
Recommendations == <<"r">>
FollowUp == <<"f">>
Category == <<"k">>
Test == <<"t">>
Result == <<"u">>
ReferenceRange == <<"e">>
Note == <<"o">>

NotSpecified == Str(<<"Not specified">>)
NotProvided == Str(<<"Not provided">>)

\* Lines 28-42.
categoryOrder ==
  <<
    <<"H", "a", "e", "m", "a", "t", "o", "l", "o", "g", "y">>,
    <<"I", "r", "o", "n", " ", "S", "t", "a", "t", "u", "s">>,
    <<"R", "e", "n", "a", "l", " ", "F", "u", "n", "c", "t", "i", "o", "n",
      " ", "&", " ", "M", "e", "t", "a", "b", "o", "l", "i", "c">>,
    <<"L", "i", "v", "e", "r", " ", "F", "u", "n", "c", "t", "i", "o", "n">>,
    <<"L", "i", "p", "i", "d", "s", " ", "&", " ", "C", "a", "r", "d", "i",
      "o", "v", "a", "s", "c", "u", "l", "a", "r", " ", "R", "i", "s", "k">>,
    <<"I", "n", "f", "l", "a", "m", "m", "a", "t", "o", "r", "y", " ", "M",
      "a", "r", "k", "e", "r", " ", "&", " ", "C", "V", "D", " ", "R", "i",
      "s", "k">>,
    <<"D", "i", "a", "b", "e", "t", "e", "s", " ", "&", " ", "P", "a", "n",
      "c", "r", "e", "a", "t", "i", "c">>,
    <<"I", "n", "f", "e", "c", "t", "i", "o", "u", "s", " ", "D", "i", "s",
      "e", "a", "s", "e", " ", "S", "e", "r", "o", "l", "o", "g", "y">>,
    <<"T", "h", "y", "r", "o", "i", "d", " ", "F", "u", "n", "c", "t", "i",
      "o", "n">>,
    <<"T", "u", "m", "o", "u", "r", " ", "M", "a", "r", "k", "e", "r", "s">>,
    <<"I", "m", "m", "u", "n", "o", "s", "e", "r", "o", "l", "o", "g", "y">>,
    <<"U", "r", "i", "n", "a", "l", "y", "s", "i", "s">>,
    <<"O", "t", "h", "e", "r">>
  >>
UpperCase ==
  <<"A", "B", "C", "D", "E", "F", "G", "H", "I", "J", "K", "L", "M", "N",
    "O", "P", "Q", "R", "S", "T", "U", "V", "W", "X", "Y", "Z">>
LowerCase ==
  <<"a", "b", "c", "d", "e", "f", "g", "h", "i", "j", "k", "l", "m", "n",
    "o", "p", "q", "r", "s", "t", "u", "v", "w", "x", "y", "z">>

\* One character of String.prototype.toLowerCase.
LowerChar(c) ==
  IF \E i \in 1..Len(UpperCase) : UpperCase[i] = c
  THEN LowerCase[CHOOSE i \in 1..Len(UpperCase) : UpperCase[i] = c]
  ELSE c

\* s.toLowerCase()
ToLowerCase(s) == [i \in 1..Len(s) |-> LowerChar(s[i])]

IsSpace(c) == c \in {" ", "\n", "\t"}

\* The part of s from position first on that ends at its last character
\* which is no white space.
TrimEnd(s, first) ==
  SubSeq(s, first, MaxOf({i \in first..Len(s) : ~IsSpace(s[i])}))

\* s.trim()
Trim(s) ==
  IF \A i \in 1..Len(s) : IsSpace(s[i])
  THEN <<>>
  ELSE TrimEnd(s, MinOf({i \in 1..Len(s) : ~IsSpace(s[i])}))

\* What React puts on the page for the child v: the text of a string or a
\* number, nothing for undefined, null, true and false, the children of an
\* array one after another; an object is no valid child, and rendering
\* throws.
RECURSIVE Child(_), Children(_, _)

ChildAfter(first, rest) ==
  [threw |-> first.threw \/ rest.threw, text |-> first.text \o rest.text]

Children(s, i) ==
  IF i > Len(s) THEN [threw |-> FALSE, text |-> <<>>]
  ELSE ChildAfter(Child(s[i]), Children(s, i + 1))

Child(v) ==
  CASE v.t = "str" -> [threw |-> FALSE, text |-> v.v]
    [] v.t = "num" -> [threw |-> FALSE, text |-> NumText(v.v)]
    [] v.t = "arr" -> Children(v.v, 1)
    [] v.t = "obj" -> [threw |-> TRUE, text |-> <<>>]
    [] OTHER -> [threw |-> FALSE, text |-> <<>>]

\* v || sentinel
OrSentinel(v, sentinel) == IF Truthy(v) THEN v ELSE sentinel

\* x.key of a value x: undefined and null have no properties, and the read
\* throws.
Member(x, key) ==
  IF x.t \in {"undef", "null"}
  THEN [threw |-> TRUE, val |-> Undefined]
  ELSE [threw |-> FALSE, val |-> GetProp(x, key)]

\* x?.key
OptionalMember(x, key) ==
  IF x.t \in {"undef", "null"} THEN Undefined ELSE GetProp(x, key)

NoCategories == [k \in {} |-> Undefined]

\* normalizedCategories[key] = val
Assigned(acc, key, val) ==
  [k \in DOMAIN acc \cup {key} |-> IF k = key THEN val ELSE acc[k]]

\* Lines 23-25 for the entry c whose category is category: an entry without
\* a category is skipped; a category that is no string has no trim, and the
\* call throws.
CategoryInto(acc, c, category) ==
  IF ~Truthy(category) THEN [threw |-> FALSE, map |-> acc]
  ELSE IF category.t # "str" THEN [threw |-> TRUE, map |-> acc]
  ELSE [threw |-> FALSE,
        map |-> Assigned(acc, ToLowerCase(Trim(category.v)), GetProp(c, Summary))]

\* Lines 22-26 for one entry c.
EntryInto(acc, c) ==
  IF Member(c, Category).threw
  THEN [threw |-> TRUE, map |-> acc]
  ELSE CategoryInto(acc, c, Member(c, Category).val)

RECURSIVE NormalizeFrom(_, _, _)

NormalizeNext(entries, i, into) ==
  IF into.threw THEN into ELSE NormalizeFrom(entries, i + 1, into.map)

\* forEach over entries[i..], in the order of the array.
NormalizeFrom(entries, i, acc) ==
  IF i > Len(entries) THEN [threw |-> FALSE, map |-> acc]
  ELSE NormalizeNext(entries, i, EntryInto(acc, entries[i]))

\* Lines 21-26 for the value analysis of content.categorized_analysis: a
\* falsy value gives [], and a truthy value that is no array has no forEach.
NormalizedOf(analysis) ==
  IF ~Truthy(analysis) THEN [threw |-> FALSE, map |-> NoCategories]
  ELSE IF IsArray(analysis) THEN NormalizeFrom(analysis.v, 1, NoCategories)
  ELSE [threw |-> TRUE, map |-> NoCategories]

normalizedCategories(content) == NormalizedOf(GetProp(content, CategorizedAnalysis))

\* normalizedCategories[key]
Lookup(map, key) == IF key \in DOMAIN map THEN map[key] ELSE Undefined

\* A bug this code does not have: no line 83, a section for every category.
SectionAlways(cat, summary) ==
  [threw |-> Child(summary).threw,
   list |-> <<[title |-> cat, text |-> Child(summary).text]>>]

\* Lines 82-90 for the category cat: nothing, or its heading and paragraph.
SectionOf(cat, summary) ==
  IF ~Truthy(summary) THEN [threw |-> FALSE, list |-> <<>>]
  ELSE [threw |-> Child(summary).threw,
        list |-> <<[title |-> cat, text |-> Child(summary).text]>>]

SectionsAfter(first, rest) ==
  [threw |-> first.threw \/ rest.threw, list |-> first.list \o rest.list]

\* A bug this code does not have: the categories taken from the last to the
\* first.
RECURSIVE SectionsBackwards(_, _)
SectionsBackwards(map, i) ==
  IF i > Len(categoryOrder) THEN [threw |-> FALSE, list |-> <<>>]
  ELSE SectionsAfter(SectionsBackwards(map, i + 1),
                     SectionOf(categoryOrder[i],
                               Lookup(map, ToLowerCase(categoryOrder[i]))))

\* categoryOrder.map of lines 81-91, from categoryOrder[i] on.
RECURSIVE Sections(_, _)
Sections(map, i) ==
  IF i > Len(categoryOrder) THEN [threw |-> FALSE, list |-> <<>>]
  ELSE SectionsAfter(SectionOf(categoryOrder[i],
                               Lookup(map, ToLowerCase(categoryOrder[i]))),
                     Sections(map, i + 1))

\* Lines 145-158 for one finding f: the four cells of its row.
RowCells(test, result, reference, note) ==
  [threw |-> test.threw \/ result.threw \/ reference.threw \/ note.threw,
   list |-> <<[test |-> test.text, result |-> result.text,
               reference |-> reference.text, note |-> note.text]>>]

Row(f) ==
  IF Member(f, Test).threw THEN [threw |-> TRUE, list |-> <<>>]
  ELSE RowCells(Child(GetProp(f, Test)), Child(GetProp(f, Result)),
                Child(OrSentinel(GetProp(f, ReferenceRange), NotProvided)),
                Child(GetProp(f, Note)))

RowsAfter(first, rest) ==
  [threw |-> first.threw \/ rest.threw, list |-> first.list \o rest.list]

\* content.abnormal_findings.map of lines 144-159, from findings[i] on.
RECURSIVE Rows(_, _)
Rows(findings, i) ==
  IF i > Len(findings) THEN [threw |-> FALSE, list |-> <<>>]
  ELSE RowsAfter(Row(findings[i]), Rows(findings, i + 1))

\* A bug this code does not have: the table for every array, empty or not.
TableForArrays(findings) ==
  IF IsArray(findings)
  THEN [threw |-> Rows(findings.v, 1).threw, table |-> TRUE,
        rows |-> Rows(findings.v, 1).list]
  ELSE [threw |-> FALSE, table |-> FALSE, rows |-> <<>>]

\* Lines 95-164 for the value findings of content.abnormal_findings:
\* findings?.length > 0 holds of a non-empty array and of a non-empty
\* string, and a string has no map.
Table(findings) ==
  IF findings.t \in {"arr", "str"} /\ Len(findings.v) > 0
  THEN IF IsArray(findings)
       THEN [threw |-> Rows(findings.v, 1).threw, table |-> TRUE,
             rows |-> Rows(findings.v, 1).list]
       ELSE [threw |-> TRUE, table |-> FALSE, rows |-> <<>>]
  ELSE [threw |-> FALSE, table |-> FALSE, rows |-> <<>>]

\* A bug this code does not have: the field shown without the sentinel.
FieldNoSentinel(v) == Child(v)

\* {v || "Not specified"}
Field(v) == Child(OrSentinel(v, NotSpecified))

\* return null of line 5: nothing is rendered.
Nothing == [shown |-> FALSE, threw |-> FALSE]

\* Rendering threw, and React shows nothing of the component.
Crashed == [shown |-> FALSE, threw |-> TRUE]

\* The page of lines 44-201, from its parts.
PageOf(name, age, sex, date, sections, table, summary, recommendations, followUp) ==
  IF \/ name.threw \/ age.threw \/ sex.threw \/ date.threw
     \/ sections.threw \/ table.threw
     \/ summary.threw \/ recommendations.threw \/ followUp.threw
  THEN Crashed
  ELSE [shown |-> TRUE, threw |-> FALSE,
        name |-> name.text, age |-> age.text, sex |-> sex.text, date |-> date.text,
        sections |-> sections.list,
        table |-> table.table, rows |-> table.rows, message |-> ~table.table,
        summary |-> summary.text, recommendations |-> recommendations.text,
        followUp |-> followUp.text]

\* Lines 21-201 for the object normalized that lines 21-26 built.
PageWith(content, normalized) ==
  IF normalized.threw THEN Crashed
  ELSE PageOf(Field(OptionalMember(GetProp(content, Patient), Name)),
              Field(OptionalMember(GetProp(content, Patient), Age)),
              Field(OptionalMember(GetProp(content, Patient), Sex)),
              Field(OptionalMember(GetProp(content, Patient), Date)),
              Sections(normalized.map, 1),
              Table(GetProp(content, AbnormalFindings)),
              Field(GetProp(content, Summary)),
              Field(GetProp(content, Recommendations)),
              Field(GetProp(content, FollowUp)))

\* ReportPreview({ content })
ReportPreview(content) ==
  IF ~Truthy(content) THEN Nothing
  ELSE PageWith(content, normalizedCategories(content))

(***************************************************************************)
(* The reports the rendering checks draw from: reports that differ in      *)
(* categorized_analysis, in abnormal_findings, in patient, and in the      *)
(* narrative fields, and the reports the server of part_001 makes of model *)
(* outputs in prose, as they reach the client.                             *)
(***************************************************************************)
ObjectWith(keys, vals) ==
  Obj([k \in {keys[i] : i \in {j \in 1..Len(keys) : vals[j] # Undefined}} |->
         vals[CHOOSE i \in 1..Len(keys) : keys[i] = k]])

\* Category names as the model may write them: a taxonomy name as it is, in
\* capitals between spaces, in small letters before a line break, and a
\* name that is no taxonomy name.
Shouted == <<" ", "O", "T", "H", "E", "R", " ">>
Whispered == <<"i", "r", "o", "n", " ", "s", "t", "a", "t", "u", "s", "\n">>
Others == <<"O", "t", "h", "e", "r", "s">>

CategoryValues ==
  {Undefined, Str(categoryOrder[1]), Str(Shouted), Str(Whispered), Str(Others)}

EntrySamples ==
  {ObjectWith(<<Category, Summary>>, <<k, t>>) :
     k \in CategoryValues, t \in {Str(<<>>), Str(<<"x">>)}}

FindingSamples ==
  {ObjectWith(<<Test, Result, ReferenceRange, Note>>, <<t, Str(<<"1">>), e, Undefined>>) :
     t \in {Str(<<"x">>), Str(<<"y">>)},
     e \in {Undefined, Str(<<>>), Str(<<"0">>)}}

SeqsUpTo(S, n) == UNION {[1..m -> S] : m \in 0..n}

FieldValues == {Undefined, Str(<<>>), Str(<<"x">>)}

PatientSamples ==
  {Undefined, Null} \cup
  {ObjectWith(<<Name, Age, Sex, Date>>, <<n, g, x, d>>) :
     n \in FieldValues, g \in FieldValues, x \in FieldValues, d \in FieldValues}

ProseWrapped ==
  {in \in Inputs : ~in.structured /\ in.cut = 0 /\ in.quote = "\"" /\ ~in.comma
                   /\ in.pre # <<>> /\ in.post # <<>>}

\* res.json(body) and, in the client, JSON.parse(text).report.
Transported(report) == JSONparse(Ser(report, "\"", FALSE)).val

Pages ==
  {[content |-> ObjectWith(<<CategorizedAnalysis>>, <<Arr(entries)>>), source |-> <<>>] :
     entries \in SeqsUpTo(EntrySamples, MaxEntries)}
  \cup
  {[content |-> ObjectWith(<<AbnormalFindings>>, <<findings>>), source |-> <<>>] :
     findings \in {Null, Str(<<"x">>)}
                  \cup {Arr(f) : f \in SeqsUpTo(FindingSamples, MaxFindings)}}
  \cup
  {[content |-> ObjectWith(<<Patient>>, <<patient>>), source |-> <<>>] :
     patient \in PatientSamples}
  \cup
  {[content |-> ObjectWith(<<Summary, Recommendations, FollowUp>>, <<t, r, f>>),
    source |-> <<>>] :
     t \in FieldValues \cup {Null}, r \in FieldValues, f \in FieldValues}
  \cup
  {[content |-> Transported(AnalyzeTail(ResponseOf(in)).body.report), source |-> <<in>>] :
     in \in {i \in ProseWrapped : AnalyzeTail(ResponseOf(i)).status = 200}}

InitRender ==
  /\ now = 0
  /\ store = [p \in Paths |-> 0]
  /\ reqs = [r \in Reqs |-> NewRequest]
  /\ nin = NoInput
  /\ nout = <<>>
  /\ \E pg \in Pages : page = [content |-> pg.content, source |-> pg.source, rendered |-> <<>>]
  /\ ui = NoUploader

\* React renders <ReportPreview content={report} />.
Render ==
  /\ page.rendered = <<>>
  /\ page' = [page EXCEPT !.rendered = <<ReportPreview(page.content)>>]
  /\ UNCHANGED <<now, store, reqs, nin, nout, ui>>

NextRender == Render

SpecRender == InitRender /\ [][NextRender]_vars

(***************************************************************************)
(* Uploader (src/client/src/components/Uploader.jsx, lines 1-86).  A text  *)
(* that the component only compares and shows is one token.                *)
(***************************************************************************)
Files == {"a.pdf", "b.pdf"}

ChooseFirstMessage == <<"Please choose a PDF first.">>
NotJSONMessage == <<"Backend did not return valid JSON">>
FailedToAnalyzeMessage == <<"Failed to analyze">>
FailedToFetchMessage == <<"Failed to fetch">>
NullReadMessage == <<"Cannot read properties of null">>

\* new Error(v).message
ToMessage(v) ==
  CASE v.t = "str" -> v.v
    [] v.t = "num" -> NumText(v.v)
    [] v.t = "true" -> <<"true">>
    [] v.t = "obj" -> <<"[object Object]">>

\* What fetch and res.text() give: a rejection, or res.ok and the text.
Rejection == [rejected |-> TRUE, ok |-> FALSE, text |-> <<>>]
Response(ok, text) == [rejected |-> FALSE, ok |-> ok, text |-> text]

\* The body of a reply of the endpoint, as a value.
BodyValue(body) ==
  IF "report" \in DOMAIN body
  THEN ObjectWith(<<ReportKey>>, <<body.report>>)
  ELSE ObjectWith(<<ErrorKey>>, <<Str(<<body.error>>)>>)

\* res.status(status).json(body) of the server, as fetch receives it.
HttpOf(reply) == Response(reply.status = 200, Ser(BodyValue(reply.body), "\"", FALSE))

\* The results of fetch that the client checks draw from: a network error,
\* the replies of the server of part_001 to the model responses and to a
\* failed call, a page of a gateway that is no JSON, an error body without
\* error, and the text null.
FetchResults ==
  {Rejection}
  \cup {HttpOf(AnalyzeTail(response)) : response \in ModelResponses}
  \cup {HttpOf(ServerError(UpstreamMessage))}
  \cup {Response(FALSE, <<"<", "h", "t", "m", "l", ">">>),
        Response(FALSE, <<"{", "}">>),
        Response(TRUE, <<"n", "u", "l", "l">>)}

\* The end of one call of analyze: an error caught at line 53, or the
\* report set at line 52.
Thrown(message) == [failed |-> TRUE, message |-> message, report |-> Undefined]
ReportSet(report) == [failed |-> FALSE, message |-> <<>>, report |-> report]

\* Lines 50-52 for the parsed body json.
AfterParse(ok, json) ==
  IF Member(json, ErrorKey).threw THEN Thrown(NullReadMessage)
  ELSE IF ~ok
       THEN Thrown(ToMessage(OrSentinel(GetProp(json, ErrorKey), Str(FailedToAnalyzeMessage))))
       ELSE ReportSet(GetProp(json, ReportKey))

\* Lines 43-52 for the outcome parsed of JSON.parse(text).
AfterText(ok, parsed) ==
  IF parsed.threw THEN Thrown(NotJSONMessage) ELSE AfterParse(ok, parsed.val)

\* Lines 35-52 for what fetch and res.text() gave.
AfterFetch(result) ==
  IF result.rejected THEN Thrown(FailedToFetchMessage)
  ELSE AfterText(result.ok, JSONparse(result.text))

NoAttempt == [kind |-> "none", message |-> <<>>, before |-> Null]

\* The state of lines 16-19, the calls of analyze that wait for fetch, and
\* what the last call of analyze that ended did (none once the user acts
\* again), whether a call set a report since the last file selection, and
\* the file that the report was made for.
NewUploader ==
  [file |-> NoFile, loading |-> FALSE, report |-> Null, error |-> <<>>,
   flights |-> <<>>, last |-> NoAttempt, succeeded |-> FALSE, shownFor |-> NoFile]

InitClient ==
  /\ now = 0
  /\ store = [p \in Paths |-> 0]
  /\ reqs = [r \in Reqs |-> NewRequest]
  /\ nin = NoInput
  /\ nout = <<>>
  /\ page = NoPage
  /\ ui = NewUploader

\* onFileChange, lines 21-25: a file is chosen, or the choice is cancelled.
onFileChange ==
  /\ \E f \in Files \cup {NoFile} :
       ui' = [ui EXCEPT !.file = f, !.report = Null, !.error = <<>>,
                        !.last = NoAttempt, !.succeeded = FALSE, !.shownFor = NoFile]
  /\ UNCHANGED <<now, store, reqs, nin, nout, page>>

\* Lines 28-38: analyze up to its first await.
Submitted(u) ==
  IF u.file = NoFile
  THEN [u EXCEPT !.error = ChooseFirstMessage, !.last = NoAttempt]
  ELSE [u EXCEPT !.loading = TRUE, !.error = <<>>, !.last = NoAttempt,
                 !.flights = Append(@, [file |-> u.file])]

\* A bug this code does not have: an Analyze button that is never disabled.
analyzeNotDisabled ==
  /\ ui' = Submitted(ui)
  /\ UNCHANGED <<now, store, reqs, nin, nout, page>>

\* A click on Analyze; the button is disabled while loading (line 75).
analyze ==
  /\ ~ui.loading
  /\ ui' = Submitted(ui)
  /\ UNCHANGED <<now, store, reqs, nin, nout, page>>

\* A bug this code does not have: no finally block.
SettledNoFinally(u, for, end) ==
  IF end.failed
  THEN [u EXCEPT !.error = end.message,
                 !.last = [kind |-> "failed", message |-> end.message, before |-> u.report]]
  ELSE [u EXCEPT !.report = end.report, !.succeeded = TRUE, !.shownFor = for,
                 !.last = [kind |-> "ok", message |-> <<>>, before |-> u.report]]

\* Lines 52-57 of the call of analyze made for the file for: setReport or
\* setError, and setLoading(false).
Settled(u, for, end) ==
  IF end.failed
  THEN [u EXCEPT !.error = end.message, !.loading = FALSE,
                 !.last = [kind |-> "failed", message |-> end.message, before |-> u.report]]
  ELSE [u EXCEPT !.report = end.report, !.loading = FALSE, !.succeeded = TRUE,
                 !.shownFor = for,
                 !.last = [kind |-> "ok", message |-> <<>>, before |-> u.report]]

Remove(s, k) == SubSeq(s, 1, k - 1) \o SubSeq(s, k + 1, Len(s))

\* fetch and res.text() of a waiting call settle, and the call runs to its
\* end (lines 40-57).
FetchDone ==
  /\ \E k \in 1..Len(ui.flights), result \in FetchResults :
       ui' = Settled([ui EXCEPT !.flights = Remove(@, k)], ui.flights[k].file,
                     AfterFetch(result))
  /\ UNCHANGED <<now, store, reqs, nin, nout, page>>

NextClient == onFileChange \/ analyze \/ FetchDone

SpecClient == InitClient /\ [][NextClient]_vars

(***************************************************************************)
(* Temporary files (lines 104-205).                                        *)
(***************************************************************************)
HasFile(r) == reqs[r].pc # "new" /\ reqs[r].file # NoFile
Ended(r) == reqs[r].pc = "done"

\* C1: for every request that stored a file, fs.unlink is called exactly
\* once by the time the handler has ended, and never more than once, on
\* every exit path.
C1_UnlinkExactlyOnce ==
  \A r \in Reqs :
    HasFile(r) => /\ reqs[r].unlinks <= 1
                  /\ Ended(r) => reqs[r].unlinks = 1

\* C2 as claimed: when a request has ended (its response is sent), the file
\* stored for it is no longer in uploads/.
C2_NoFileWhenEnded ==
  \A r \in Reqs : HasFile(r) /\ Ended(r) => store[reqs[r].path] # r

\* C2 as amended: when a request that stored a file has ended, the deletion
\* of the file has been requested; once the requested deletions are carried
\* out the file is gone, and when every request has ended and no deletion is
\* outstanding uploads/ is empty.
C2_ReleasedWhenEnded ==
  /\ \A r \in Reqs :
       HasFile(r) /\ Ended(r) =>
         /\ reqs[r].unlinks >= 1
         /\ reqs[r].pending = 0 => store[reqs[r].path] # r
  /\ (\A r \in Reqs : Ended(r) /\ reqs[r].pending = 0) => \A p \in Paths : store[p] = 0

\* A request ended by the catch block after a failed external call, with the
\* deletion carried out.
C2_Witness ==
  \E r \in Reqs :
    /\ HasFile(r) /\ Ended(r) /\ reqs[r].pending = 0
    /\ reqs[r].sent[1].status = 500
    /\ reqs[r].calls >= 1

InFlight(r) == reqs[r].pc \in {"upload", "filesCreate", "responsesCreate"}

\* C3: two requests whose lifetimes overlap never have the same path, and
\* the file a request uploads to the external client is its own.
C3_DistinctPaths ==
  /\ \A r1, r2 \in Reqs :
       r1 # r2 /\ InFlight(r1) /\ InFlight(r2) => reqs[r1].path # reqs[r2].path
  /\ \A r \in Reqs : reqs[r].read \in {0, r}

\* C4: whenever the external client's response gave a value (the structured
\* object, or a parse of the text), the reply is a report that has
\* abnormal_findings and categorized_analysis as arrays.
C4_ReportHasArrays ==
  \A r \in Reqs :
    (reqs[r].response # <<>> /\ Truthy(ParsedOf(reqs[r].response[1]).val)) =>
      /\ reqs[r].sent[1].status = 200
      /\ IsArray(GetProp(reqs[r].sent[1].body.report, AbnormalFindings))
      /\ IsArray(GetProp(reqs[r].sent[1].body.report, CategorizedAnalysis))

\* C10: a request without a file is answered 400 { error: "No file uploaded" },
\* and neither an external call nor a deletion is made for it.
C10_NoFileRejected ==
  \A r \in Reqs :
    reqs[r].pc # "new" /\ reqs[r].file = NoFile =>
      /\ reqs[r].sent = <<[status |-> 400, body |-> [error |-> NoFileMessage]]>>
      /\ reqs[r].calls = 0
      /\ reqs[r].unlinks = 0
      /\ reqs[r].pending = 0

\* A request without a file has been answered while another one with a file
\* is waiting for the external client.
C10_Witness ==
  \E r, q \in Reqs :
    /\ Ended(r) /\ reqs[r].file = NoFile /\ Len(reqs[r].sent) = 1
    /\ reqs[q].pc = "responsesCreate"

(***************************************************************************)
(* Replies of the endpoint (lines 104-205).                                *)
(***************************************************************************)
\* C11: when the upload was stored and a call of the external client
\* (openai.files.create or openai.responses.create) threw, the request is
\* answered 500 with the thrown error's message as error, fs.unlink is
\* called for the file, and the file is gone once the deletion is carried
\* out.
C11_ThrownMessageReturned ==
  \A r \in Reqs :
    (Ended(r) /\ reqs[r].thrown # <<>>) =>
      /\ HasFile(r)
      /\ reqs[r].sent = <<ServerError(reqs[r].thrown[1])>>
      /\ reqs[r].unlinks = 1
      /\ (reqs[r].pending = 0 => store[reqs[r].path] # r)

\* One request ended by a throw of openai.files.create and another by a
\* throw of openai.responses.create, both files deleted.
C11_Witness ==
  \E r, q \in Reqs :
    /\ Ended(r) /\ reqs[r].thrown = <<UpstreamMessage>> /\ reqs[r].generated = 0
    /\ Ended(q) /\ reqs[q].thrown = <<UpstreamMessage>> /\ reqs[q].generated = 1
    /\ reqs[r].pending = 0 /\ reqs[q].pending = 0
    /\ \A p \in Paths : store[p] = 0

SuccessReply(m) == m.status = 200 /\ DOMAIN m.body = {"report"}
FailureReply(m) == m.status \in {400, 500} /\ DOMAIN m.body = {"error"}

\* C12: every request is sent at most one response, and exactly one when
\* its handler has ended; the response is 200 with a body that has report
\* and no error, or 400 or 500 with a body that has error and no report;
\* it is 400 exactly when the request had no file.
C12_ExactlyOneReply ==
  \A r \in Reqs :
    /\ Len(reqs[r].sent) <= 1
    /\ Ended(r) <=> Len(reqs[r].sent) = 1
    /\ \A i \in 1..Len(reqs[r].sent) :
         /\ SuccessReply(reqs[r].sent[i]) \/ FailureReply(reqs[r].sent[i])
         /\ reqs[r].sent[i].status = 400 <=> reqs[r].file = NoFile

\* One request answered with a report, and another by the catch block after
\* the coercion of a primitive threw.
C12_Witness ==
  \E r, q \in Reqs :
    /\ Ended(r) /\ SuccessReply(reqs[r].sent[1])
    /\ Ended(q) /\ reqs[q].response # <<>> /\ reqs[q].unlinks = 2
    /\ FailureReply(reqs[q].sent[1])

\* C19: the error text of a reply is "No file uploaded" for a request
\* without a file, "AI returned invalid JSON" for a model output that gave
\* no value, and otherwise the message of an error thrown by a call of the
\* external client; the message of a runtime error of the handler's own
\* processing is never sent.
C19_NoInternalMessage ==
  \A r \in Reqs :
    \A i \in 1..Len(reqs[r].sent) :
      FailureReply(reqs[r].sent[i]) =>
        \/ reqs[r].file = NoFile /\ reqs[r].sent[i].body.error = NoFileMessage
        \/ /\ reqs[r].response # <<>>
           /\ ~Truthy(ParsedOf(reqs[r].response[1]).val)
           /\ reqs[r].sent[i].body.error = InvalidJSONMessage
        \/ reqs[r].thrown = <<reqs[r].sent[i].body.error>>

\* The reply of the handler for a request that came with a file, from what
\* the external client did alone: the message of the error a call rejected
\* with, or the reply for the response.
ReplyOf(rec) ==
  IF rec.thrown # <<>> THEN ServerError(rec.thrown[1])
  ELSE [status |-> AnalyzeTail(rec.response[1]).status,
        body |-> AnalyzeTail(rec.response[1]).body]

\* C22: a deletion of the temporary file that fails (the file is gone
\* already) reaches nobody: the one reply of the request has the status and
\* the body it has when the deletion succeeds, where the handler ended with
\* a report and where it ended in the catch block.
C22_UnlinkFailureSwallowed ==
  \A r \in Reqs :
    (HasFile(r) /\ Ended(r)) => reqs[r].sent = <<ReplyOf(reqs[r])>>

\* A deletion failed for a request answered with a report, and one for a
\* request answered by the catch block.
C22_Witness ==
  \E r, q \in Reqs :
    /\ Ended(r) /\ reqs[r].failed > 0 /\ reqs[r].pending = 0
    /\ SuccessReply(reqs[r].sent[1])
    /\ Ended(q) /\ reqs[q].failed > 0 /\ reqs[q].pending = 0
    /\ FailureReply(reqs[q].sent[1]) /\ HasFile(q)

\* C13: within one request openai.responses.create is called at most once;
\* neither a failed call nor a malformed response is followed by a second
\* call.
C13_GeneratedAtMostOnce ==
  \A r \in Reqs : reqs[r].generated <= 1

(***************************************************************************)
(* Normalization (lines 78-101 and 186-199).                               *)
(***************************************************************************)
Normalized == nout # <<>>
TextInput == ~nin.structured
Whole == nin.cut = 0
Bare == nin.pre = <<>> /\ nin.post = <<>>
Plain == nin.quote = "\"" /\ ~nin.comma

InvalidReply == Reply(500, [error |-> InvalidJSONMessage], FALSE)

\* Neither the direct parse nor the parse of the repaired span gives a value.
Unrecoverable(text) ==
  /\ JSONparse(text).threw
  /\ BraceMatch(text).found => JSONparse(Cleaned(BraceMatch(text).span)).threw

\* C5: for a text that is not recoverable JSON (an object cut short, a text
\* without a brace-delimited span that is no JSON itself), safeParseJSON
\* does not throw and returns null, and the endpoint answers with the
\* invalid-model-output error.
C5_UnrecoverableFails ==
  (Normalized /\ TextInput /\ Unrecoverable(TextOf(nin))) =>
    /\ ~nout[1].parsed.threw
    /\ nout[1].parsed.val = Null
    /\ nout[1].parsed.step \in {"falsy", "fail"}
    /\ nout[1].reply = InvalidReply

\* An object text cut short inside its last member, in prose.
C5_Witness ==
  /\ Normalized /\ TextInput /\ nin.cut > 0
  /\ Unrecoverable(TextOf(nin))
  /\ BraceMatch(TextOf(nin)).found
  /\ nin.pre # <<>>
  /\ nout[1].reply = InvalidReply

\* A string that the textual repairs change: it holds an apostrophe, or a
\* comma followed by white space and a closing brace or bracket.
Fragile(chars) ==
  \E i \in 1..Len(chars) :
    \/ chars[i] = "'"
    \/ /\ chars[i] = ","
       /\ \E j \in (i + 1)..Len(chars) :
            /\ chars[j] \in {"}", "]"}
            /\ \A m \in (i + 1)..(j - 1) : IsWs(chars[m])

\* Some key or string value inside x is fragile.
RECURSIVE HasFragile(_)
HasFragile(x) ==
  CASE x.t = "str" -> Fragile(x.v)
    [] x.t = "arr" -> \E i \in 1..Len(x.v) : HasFragile(x.v[i])
    [] x.t = "obj" -> \E k \in DOMAIN x.v : Fragile(k) \/ HasFragile(x.v[k])
    [] OTHER -> FALSE

\* The input is a valid JSON text P between two pieces of prose.
InProse == Normalized /\ TextInput /\ Whole /\ Plain

Recovered(value) ==
  /\ ~nout[1].parsed.threw
  /\ nout[1].parsed.val = value

\* C6 as claimed: for every valid JSON text P between prose without braces,
\* normalization yields parse(P).
C6_ProseWrappedRecovered ==
  InProse => Recovered(JSONparse(Original(nin)).val)

\* C6 as amended: normalization yields parse(P) when no string of P is
\* fragile and the prose does not make the whole text valid JSON.
C6_ProseWrappedRecoveredUnlessFragile ==
  (InProse /\ ~HasFragile(nin.obj) /\ (Bare \/ JSONparse(TextOf(nin)).threw)) =>
    /\ Recovered(JSONparse(Original(nin)).val)
    /\ nout[1].parsed.val = nin.obj

\* P between non-empty prose on both sides, recovered by the repair step.
C6_Witness ==
  /\ InProse /\ ~HasFragile(nin.obj)
  /\ nin.pre # <<>> /\ nin.post # <<>>
  /\ nin.obj # EmptyObj
  /\ nout[1].parsed.step = "repair"
  /\ nout[1].parsed.val = nin.obj

\* The input is P rewritten with single quotes or trailing commas, or both.
Rewritten == Normalized /\ TextInput /\ Whole /\ Bare /\ ~Plain

\* C7 as claimed: for every object text rewritten with single quotes as
\* string delimiters and/or trailing commas, normalization yields the parse
\* of the original.
C7_RewrittenRecovered ==
  Rewritten => Recovered(JSONparse(Original(nin)).val)

\* C7 as amended: it does when no string of the original is fragile.
C7_RewrittenRecoveredUnlessFragile ==
  (Rewritten /\ ~HasFragile(nin.obj)) =>
    /\ Recovered(JSONparse(Original(nin)).val)
    /\ nout[1].parsed.val = nin.obj

\* An object with a string and an array, single-quoted and with trailing
\* commas, recovered by the repair step.
C7_Witness ==
  /\ Rewritten /\ ~HasFragile(nin.obj)
  /\ nin.quote = "'" /\ nin.comma
  /\ AbnormalFindings \in DOMAIN nin.obj.v /\ IsArray(nin.obj.v[AbnormalFindings])
  /\ Summary \in DOMAIN nin.obj.v /\ nin.obj.v[Summary].t = "str"
  /\ nout[1].parsed.step = "repair"

\* C8: a valid JSON object text is returned as parsed by the direct parse;
\* extraction and repairs are not applied.
C8_ValidJsonDirect ==
  (Normalized /\ TextInput /\ Whole /\ Bare /\ Plain) =>
    /\ nout[1].parsed.step = "direct"
    /\ Recovered(JSONparse(Original(nin)).val)
    /\ nout[1].parsed.val = nin.obj

\* A valid text whose string the repairs would have changed.
C8_Witness ==
  /\ Normalized /\ TextInput /\ Whole /\ Bare /\ Plain
  /\ HasFragile(nin.obj)
  /\ nout[1].parsed.step = "direct"

\* obj with each of abnormal_findings and categorized_analysis set to an
\* empty array unless it is an array already.
WithArrays(x) ==
  Obj([k \in DOMAIN x.v \cup {AbnormalFindings, CategorizedAnalysis} |->
         IF k \in {AbnormalFindings, CategorizedAnalysis} /\ ~IsArray(GetProp(x, k))
         THEN Arr(<<>>)
         ELSE x.v[k]])

\* C9: a structured object is taken as it is, no text is parsed, and the
\* endpoint answers 200 with the object as report, its missing arrays set
\* to empty ones; an object that has both arrays is not changed.
C9_StructuredPassedThrough ==
  (Normalized /\ nin.structured) =>
    /\ nout[1].parsed = Returned(nin.obj, "structured")
    /\ nout[1].reply = Reply(200, [report |-> WithArrays(nin.obj)], FALSE)
    /\ (IsArray(GetProp(nin.obj, AbnormalFindings))
          /\ IsArray(GetProp(nin.obj, CategorizedAnalysis))) =>
         nout[1].reply.body.report = nin.obj

\* A structured object with both arrays, beside an output text that is no
\* JSON.
C9_Witness ==
  /\ Normalized /\ nin.structured /\ nin.cut > 0
  /\ IsArray(GetProp(nin.obj, AbnormalFindings))
  /\ IsArray(GetProp(nin.obj, CategorizedAnalysis))
  /\ Summary \in DOMAIN nin.obj.v
  /\ nout[1].reply.status = 200
  /\ nout[1].reply.body.report = nin.obj

(***************************************************************************)
(* The rendered report (ReportPreview.jsx).                                *)
(***************************************************************************)
Rendered == page.rendered # <<>>
Shown == Rendered /\ page.rendered[1].shown
Out == page.rendered[1]

\* The entries of content.categorized_analysis, in the order of arrival.
Entries ==
  IF IsArray(GetProp(page.content, CategorizedAnalysis))
  THEN GetProp(page.content, CategorizedAnalysis).v
  ELSE <<>>

SameLetter(a, b) ==
  a = b \/ \E n \in 1..Len(UpperCase) : {a, b} = {UpperCase[n], LowerCase[n]}

\* The text category is the name cat in any mix of capitals and small
\* letters, with nothing but white space before and after it.
Matches(category, cat) ==
  \E i \in 1..Len(category) :
    /\ i + Len(cat) - 1 <= Len(category)
    /\ \A k \in 1..Len(cat) : SameLetter(category[i + k - 1], cat[k])
    /\ \A k \in 1..Len(category) :
         (k < i \/ k > i + Len(cat) - 1) => IsSpace(category[k])

\* Entries[i] is an entry for the taxonomy name cat.
EntryFor(i, cat) ==
  /\ GetProp(Entries[i], Category).t = "str"
  /\ Matches(GetProp(Entries[i], Category).v, cat)

TaxonomyIndex(title) == CHOOSE k \in 1..Len(categoryOrder) : categoryOrder[k] = title

SectionTitles == {Out.sections[i].title : i \in 1..Len(Out.sections)}

\* C14: whatever the order in which the entries arrive, the titles of the
\* rendered sections are taxonomy names in the order of categoryOrder, and
\* every section shows the summary of an entry for its title: an entry
\* whose category is no taxonomy name gives no section.
C14_SectionsInTaxonomyOrder ==
  Shown =>
    /\ \A i \in 1..Len(Out.sections) :
         /\ \E k \in 1..Len(categoryOrder) : categoryOrder[k] = Out.sections[i].title
         /\ \E e \in 1..Len(Entries) :
              /\ EntryFor(e, Out.sections[i].title)
              /\ GetProp(Entries[e], Summary) = Str(Out.sections[i].text)
    /\ \A i, j \in 1..Len(Out.sections) :
         i < j => TaxonomyIndex(Out.sections[i].title) < TaxonomyIndex(Out.sections[j].title)

\* Entries arrive as Other, a name outside the taxonomy, Haematology; the
\* sections are Haematology, Other.
C14_Witness ==
  /\ Shown
  /\ Len(Entries) = 3
  /\ EntryFor(1, categoryOrder[13])
  /\ GetProp(Entries[2], Category) = Str(Others)
  /\ EntryFor(3, categoryOrder[1])
  /\ Len(Out.sections) = 2
  /\ Out.sections[1].title = categoryOrder[1]
  /\ Out.sections[2].title = categoryOrder[13]

\* The last entry for cat.
LastFor(cat) == MaxOf({e \in 1..Len(Entries) : EntryFor(e, cat)})

\* C15: a section for a taxonomy name is rendered only if some entry's
\* category is that name, compared without regard to case and to
\* surrounding white space; no name has two sections; and a name with such
\* an entry has its section when the last such entry has a summary.
C15_SectionOnlyIfMatched ==
  Shown =>
    \A k \in 1..Len(categoryOrder) :
      /\ categoryOrder[k] \in SectionTitles =>
           \E e \in 1..Len(Entries) : EntryFor(e, categoryOrder[k])
      /\ Cardinality({i \in 1..Len(Out.sections) :
                        Out.sections[i].title = categoryOrder[k]}) <= 1
      /\ (\E e \in 1..Len(Entries) : EntryFor(e, categoryOrder[k])) =>
           (categoryOrder[k] \in SectionTitles
              <=> Truthy(GetProp(Entries[LastFor(categoryOrder[k])], Summary)))

\* Two entries for Other, written in capitals between spaces, and an entry
\* for Iron Status in small letters: one section each.
C15_Witness ==
  /\ Shown
  /\ Len(Entries) = 3
  /\ GetProp(Entries[1], Category) = Str(Shouted)
  /\ GetProp(Entries[2], Category) = Str(Whispered)
  /\ GetProp(Entries[3], Category) = Str(Shouted)
  /\ SectionTitles = {categoryOrder[2], categoryOrder[13]}
  /\ Len(Out.sections) = 2

Findings == GetProp(page.content, AbnormalFindings)
TableShown == Shown /\ Out.table
MessageShown == Shown /\ Out.message

\* The summary of the report is a string or absent, as in the data model.
StringSummary == GetProp(page.content, Summary).t \in {"undef", "null", "str"}

\* The model output was an object without abnormal_findings and
\* categorized_analysis, in prose.
OmitsArrays ==
  /\ page.source # <<>>
  /\ GetProp(page.source[1].obj, AbnormalFindings) = Undefined
  /\ GetProp(page.source[1].obj, CategorizedAnalysis) = Undefined

\* C16: for a report whose summary is a string or absent, the table is
\* shown exactly when abnormal_findings is a non-empty array, with one row
\* for each finding in the order of the array; when abnormal_findings is
\* empty or absent the message is shown and no table; for a model output in
\* prose without both arrays the message is shown and no section.
C16_TableOrMessage ==
  (Rendered /\ StringSummary) =>
    /\ TableShown <=> (IsArray(Findings) /\ Len(Findings.v) > 0)
    /\ TableShown =>
         /\ Len(Out.rows) = Len(Findings.v)
         /\ \A i \in 1..Len(Out.rows) :
              GetProp(Findings.v[i], Test).t = "str" =>
                Out.rows[i].test = GetProp(Findings.v[i], Test).v
    /\ Findings \in {Undefined, Null, Arr(<<>>)} =>
         MessageShown /\ ~TableShown
    /\ OmitsArrays => MessageShown /\ ~TableShown /\ Out.sections = <<>>

\* A table of two rows, in the order of the findings.
C16_Witness ==
  /\ TableShown
  /\ Len(Out.rows) = 2
  /\ Out.rows[1].test = <<"y">>
  /\ Out.rows[2].test = <<"x">>

\* A report made of a model output in prose without both arrays, rendered.
C16_WitnessProse ==
  OmitsArrays /\ StringSummary /\ MessageShown /\ page.source[1].pre # <<>>

\* The text shown for the field value v with the given sentinel.
Expected(v, sentinel) ==
  IF v \in {Undefined, Null, Str(<<>>)} THEN sentinel.v ELSE v.v

\* The field value v, a string when present as in the data model, is shown
\* as text.
ShownAs(text, v, sentinel) ==
  v.t \in {"undef", "null", "str"} => text = Expected(v, sentinel)

PatientValue(key) == OptionalMember(GetProp(page.content, Patient), key)

\* C17: name, age, sex and date of patient, and summary, recommendations
\* and follow_up, show "Not specified" when the field is absent or empty
\* (also when patient is absent), and the field's value, a string,
\* otherwise; the reference range of a finding shows "Not provided" when
\* absent or empty.
C17_Sentinels ==
  Shown =>
    /\ ShownAs(Out.name, PatientValue(Name), NotSpecified)
    /\ ShownAs(Out.age, PatientValue(Age), NotSpecified)
    /\ ShownAs(Out.sex, PatientValue(Sex), NotSpecified)
    /\ ShownAs(Out.date, PatientValue(Date), NotSpecified)
    /\ ShownAs(Out.summary, GetProp(page.content, Summary), NotSpecified)
    /\ ShownAs(Out.recommendations, GetProp(page.content, Recommendations), NotSpecified)
    /\ ShownAs(Out.followUp, GetProp(page.content, FollowUp), NotSpecified)
    /\ \A i \in 1..Len(Out.rows) :
         ShownAs(Out.rows[i].reference, GetProp(Findings.v[i], ReferenceRange),
                 NotProvided)

\* A patient with a name, an empty age and no sex.
C17_Witness ==
  /\ Shown
  /\ PatientValue(Name) = Str(<<"x">>) /\ Out.name = <<"x">>
  /\ PatientValue(Age) = Str(<<>>) /\ Out.age = NotSpecified.v
  /\ PatientValue(Sex) = Undefined /\ Out.sex = NotSpecified.v

(***************************************************************************)
(* The steps of safeParseJSON (lines 78-101), stated apart from the code.  *)
(***************************************************************************)
\* s without the characters at the positions in drop.
Without(s, drop) ==
  [i \in 1..(Len(s) - Cardinality(drop \cap (1..Len(s)))) |->
     s[CHOOSE k \in (1..Len(s)) \ drop :
         Cardinality({m \in (1..k) \ drop : TRUE}) = i]]

\* The positions of the commas of s that only white space separates from a
\* following close, and of that white space.
CommaRun(s, close) ==
  {k \in 1..Len(s) :
     \E i \in 1..k, m \in (k + 1)..Len(s) :
       /\ s[i] = "," /\ s[m] = close
       /\ \A n \in (i + 1)..(m - 1) : s[n] \in {" ", "\n"}
       /\ k < m}

\* The four repairs in the order of the claim.
Repaired(span) ==
  Without(
    Without([i \in 1..Len(span) |->
               IF span[i] = "\n" THEN " " ELSE IF span[i] = "'" THEN "\"" ELSE span[i]],
            CommaRun([i \in 1..Len(span) |->
                        IF span[i] = "\n" THEN " "
                        ELSE IF span[i] = "'" THEN "\"" ELSE span[i]], "}")),
    CommaRun(Without([i \in 1..Len(span) |->
                        IF span[i] = "\n" THEN " "
                        ELSE IF span[i] = "'" THEN "\"" ELSE span[i]],
                     CommaRun([i \in 1..Len(span) |->
                                 IF span[i] = "\n" THEN " "
                                 ELSE IF span[i] = "'" THEN "\"" ELSE span[i]], "}")),
             "]"))

HasSpan(text) ==
  \E i, j \in 1..Len(text) : i < j /\ text[i] = "{" /\ text[j] = "}"

\* The span from the first "{" to the last "}".
SpanOf(text) ==
  SubSeq(text,
         CHOOSE i \in 1..Len(text) :
           text[i] = "{" /\ \A k \in 1..(i - 1) : text[k] # "{",
         CHOOSE j \in 1..Len(text) :
           text[j] = "}" /\ \A k \in (j + 1)..Len(text) : text[k] # "}")

\* The result parsed is the parse of the repaired span, or failure.
RepairedParse(parsed, repaired) ==
  IF repaired.threw
  THEN parsed.val = Null /\ parsed.step = "fail"
  ELSE parsed.val = repaired.val /\ parsed.step = "repair"

\* The result parsed of safeParseJSON(text) is the one of the first step
\* that succeeds.
FirstStep(text, parsed, direct) ==
  /\ ~parsed.threw
  /\ IF ~direct.threw
     THEN parsed.val = direct.val /\ parsed.step = "direct"
     ELSE IF HasSpan(text)
          THEN RepairedParse(parsed, JSONparse(Repaired(SpanOf(text))))
          ELSE parsed.val = Null /\ parsed.step \in {"falsy", "fail"}

\* C20: for a string, safeParseJSON returns the direct parse of the whole
\* string whenever it succeeds; only otherwise it takes the span from the
\* first "{" to the last "}", replaces line breaks by spaces and single
\* quotes by double quotes, removes the commas before "}" and then those
\* before "]", and returns the parse of the result; without such a span it
\* repairs nothing and fails.
C20_PriorityOrder ==
  (Normalized /\ TextInput) =>
    FirstStep(TextOf(nin), nout[1].parsed, JSONparse(TextOf(nin)))

\* A single-quoted text with trailing commas after prose and a line break:
\* the direct parse fails and the repaired span parses.
C20_Witness ==
  /\ Normalized /\ TextInput
  /\ nin.quote = "'" /\ nin.comma /\ nin.cut = 0
  /\ nin.pre = <<"\n">> /\ nin.post = <<"x">>
  /\ GetProp(nin.obj, AbnormalFindings) # Undefined
  /\ JSONparse(TextOf(nin)).threw
  /\ nout[1].parsed.step = "repair"

(***************************************************************************)
(* The invalid-model-output reply (lines 186-199).                         *)
(***************************************************************************)
\* The external client gave a structured object, or the direct parse of the
\* text or the parse of its repaired span gave a JSON value.
SomeAttemptSucceeded(in, text) ==
  \/ in.structured
  \/ ~JSONparse(text).threw
  \/ BraceMatch(text).found /\ ~JSONparse(Cleaned(BraceMatch(text).span)).threw

IsReport(reply) == reply.status = 200 /\ DOMAIN reply.body = {"report"}

\* C21: the endpoint answers "AI returned invalid JSON" only when every
\* parse and repair attempt failed: when the external client gave a
\* structured object, or the direct parse or the repaired parse of the text
\* gave any JSON value, the reply is a report and no error.
C21_InvalidOnlyWhenAllFailed ==
  (Normalized /\ SomeAttemptSucceeded(nin, TextOf(nin))) =>
    /\ nout[1].reply # InvalidReply
    /\ IsReport(nout[1].reply)

(***************************************************************************)
(* The client (Uploader.jsx).                                              *)
(***************************************************************************)
FailedLast == ui.last.kind = "failed"

\* C18 as claimed: after a call of analyze failed (network error, response
\* that is no JSON, response that is not ok), the error is shown, loading
\* is false and no report is shown.
C18_FailureShowsNoReport ==
  FailedLast => ui.error # <<>> /\ ~ui.loading /\ ~Truthy(ui.report)

\* C18 as amended: after a call of analyze failed, its error message is
\* shown and loading is false; the failed call sets no report, and a report
\* shown afterwards is the one that was shown before, set by a call that
\* succeeded since the last file selection.
C18_FailureKeepsEarlierReport ==
  FailedLast =>
    /\ ui.error # <<>> /\ ui.error = ui.last.message
    /\ ~ui.loading
    /\ ui.report = ui.last.before
    /\ Truthy(ui.report) => ui.succeeded

\* A response that is no JSON, after an earlier call gave a report.
C18_Witness ==
  /\ FailedLast
  /\ ui.error = NotJSONMessage
  /\ Truthy(ui.report)
  /\ ui.file \in Files

\* At most one call of analyze waits for fetch, and loading is true exactly
\* while one does; Analyze cannot be clicked while loading; after a call
\* has ended, with a report or with an error, loading is false.
OneInFlight ==
  /\ Len(ui.flights) <= 1
  /\ ui.loading <=> ui.flights # <<>>
  /\ ui.loading => ~ENABLED analyze
  /\ ui.last.kind \in {"ok", "failed"} => ~ui.loading

\* A click on Analyze without a file sends nothing and shows the message.
NoFileClick ==
  (analyze /\ ui.file = NoFile) =>
    /\ ui'.flights = ui.flights /\ ui'.flights = <<>>
    /\ ~ui'.loading
    /\ ui'.error = ChooseFirstMessage

\* A click on Analyze with a file sends one request and sets loading.
FileClick ==
  (analyze /\ ui.file # NoFile) =>
    /\ ui'.flights = <<[file |-> ui.file]>>
    /\ ui'.loading

\* C23: at most one analysis request is in flight at any time: loading is
\* true from the submission of a request until its response has been
\* handled, Analyze is disabled while loading, and loading is false again
\* after a request that succeeded and after one that failed; Analyze without
\* a file sends no request and sets the error "Please choose a PDF first."
C23_AtMostOneInFlight == []OneInFlight /\ [][NoFileClick /\ FileClick]_vars

\* A request is in flight for a file while the user has chosen another
\* one, and Analyze is disabled.
C23_Witness ==
  /\ ui.loading /\ Len(ui.flights) = 1
  /\ ui.file \notin {NoFile, ui.flights[1].file}
  /\ ~ENABLED analyze

\* The message is shown after a click without a file.
C23_WitnessNoFile ==
  /\ ui.error = ChooseFirstMessage
  /\ ui.file = NoFile /\ ~ui.loading /\ ui.flights = <<>>

\* {report && <ReportPreview content={report} />} (line 83).
Displayed == Truthy(ui.report)

\* C24: whenever a report is displayed, it was produced from the file that
\* is selected now: a file selection clears the report and the error, and
\* the response of a request submitted for a file selected earlier never
\* becomes the displayed report.
C24_ReportOfSelectedFile == Displayed => ui.shownFor = ui.file

====
